---- MODULE Spec2Model ----
(***************************************************************************)
(* Model of the claim protocol of the autonomous developer scripts:        *)
(* ralph-config.sh (init_ralph), ralph-lock.sh (mkdir lock),               *)
(* ralph-claim.sh (claim / release / complete / block / update_ci),        *)
(* ralph-agent.sh (run_agent, run_feature_loop), ralph-heartbeat.sh (the   *)
(* stale-claim reaper) and the exit trap of ralph-orchestrator.sh.         *)
(*                                                                         *)
(* Files are variables: prd.json (prd), progress/state.json (stateExists,  *)
(* state), the lock directory /tmp/ralph-lock-state-claim (lock) and the   *)
(* heartbeat files (heartbeat).  Every process is a shell; one action is   *)
(* one access of a process to the shared files.  The jq read and the mv    *)
(* of "jq ... STATE > STATE.tmp && mv STATE.tmp STATE" are one step.       *)
(***************************************************************************)
EXTENDS Integers, Sequences, FiniteSets, TLC

\* ------------------------------------------------------------------ bounds
\* Seconds that one Tick of the clock adds, and the number of ticks.
TickSeconds == 601
MaxTicks == 1
\* Direct invocations of ralph-claim.sh / ralph-lock.sh / ralph-orchestrator.sh.
MaxCalls == 1
\* Builder invocations per claimed feature (MAX_ITERATIONS_PER_FEATURE, scaled).
MaxIterations == 1
\* Wake-ups of the heartbeat daemon.
MaxCycles == 1
\* Lines of cost.log.
MaxRecords == 2
MaxAnswers == 1
MaxMarkers == 2
\* Rounds of the wait loop of the orchestrator.
MaxChecks == 2

\* --------------------------------------------------------------- constants
STALE_CLAIM_THRESHOLD == 600
MAX_CI_ATTEMPTS == 3
MAX_DAILY_COST_USD == 50
\* Dollars per token, in millionths of a dollar.
COST_PER_INPUT_TOKEN == 3
COST_PER_OUTPUT_TOKEN == 15
\* jq null in a string field, and in a timestamp field.
Null == "null"
NoTime == -1

\* --------------------------------------------------------------- processes
\* The agent ids; Workers are those whose ralph-agent.sh runs, the other id
\* is the one the direct caller claims with.
Agents == {"agent-1", "agent-2"}
Workers == {"agent-1"}
Callers == {"cli"}
Reaper == "heartbeat"
Procs == Workers \cup Callers \cup {Reaper}

\* ----------------------------------------------------------------- catalog
\* One feature of prd.json.  The state fields are absent (jq null) in a
\* catalog written for the state/specs separation; a prd.json of the earlier
\* layout still carries them.
Feature(id, deps, prio) ==
  [id |-> id, depends_on |-> deps, priority |-> prio,
   status |-> Null, claimed_by |-> Null, claimed_at |-> NoTime, claimed_off |-> 0,
   ci_status |-> Null, ci_attempts |-> 0, integration_status |-> Null]

\* claimed_at is an ISO-8601 string: the local reading `at` (in seconds) and
\* the UTC offset `off` that follows it.
LegacyClaimed(id, deps, prio, agent, at, off) ==
  [id |-> id, depends_on |-> deps, priority |-> prio,
   status |-> "in_progress", claimed_by |-> agent, claimed_at |-> at,
   claimed_off |-> off, ci_status |-> Null, ci_attempts |-> 0,
   integration_status |-> Null]

LegacyCiFailed(id, deps, prio, attempts) ==
  [id |-> id, depends_on |-> deps, priority |-> prio,
   status |-> "pending", claimed_by |-> Null, claimed_at |-> NoTime,
   claimed_off |-> 0, ci_status |-> "failed", ci_attempts |-> attempts,
   integration_status |-> Null]

ChainCatalog == << Feature("A", <<>>, 1), Feature("B", <<"A">>, 2) >>
PrefixCatalog == << Feature("F1", <<>>, 1), Feature("F10", <<>>, 2) >>
LegacyCatalog == << LegacyClaimed("X", <<>>, 1, "agent-2", 0, 0),
                    LegacyCiFailed("Y", <<>>, 1, 3) >>
Catalogs == {ChainCatalog, PrefixCatalog, LegacyCatalog}

IdsOf(cat) == {cat[i].id : i \in DOMAIN cat}
SpecOf(cat, id) == cat[CHOOSE i \in DOMAIN cat : cat[i].id = id]

\* ------------------------------------------------------------ state.json
InitRecord ==
  [status |-> "pending", claimed_by |-> Null, claimed_at |-> NoTime,
   completed_at |-> NoTime, pr_url |-> Null, branch |-> Null,
   ci_status |-> Null, ci_attempts |-> 0, blocked_reason |-> Null]

\* The document init_ralph writes: one pending record per catalog id.
InitialState(cat) == [f \in IdsOf(cat) |-> InitRecord]

VARIABLES
  prd,          \* prd.json: the sequence of features
  stateExists,  \* [[ -f $STATE_FILE ]]
  state,        \* state.json: feature id -> record (meaningful when stateExists)
  lock,         \* "free", or the process whose mkdir created the lock directory
  heartbeat,    \* agent id -> second of its heartbeat file, NoTime without file
  now,          \* date +%s
  pc,           \* process -> where it is
  call,         \* process -> the ralph-claim.sh function it is in, with arguments
  cur,          \* agent -> the feature run_feature_loop works on
  iter,         \* agent -> iteration of run_feature_loop
  todo,         \* heartbeat daemon: the scan results still to handle
  cycles,       \* heartbeat daemon: wake-ups so far
  ncalls,       \* direct invocations so far
  holders,      \* history: feature -> agents whose claim committed since its last release
  lastInit,     \* history: process -> what its last init_ralph found
  ledger,       \* cost.log: the sequence of its lines
  decision,     \* decisions/<id>.json: the decision record, NoFile before create
  tmpfile,      \* decisions/<id>.json.tmp: what a jq wrote and no mv has moved yet
  asking,       \* the agent in await_decision: where it is
  answering,    \* answerer -> its answer_decision call: position, answer, result
  returned,     \* what await_decision gave back: exit status and the answer echoed
  cancelling,   \* `ralph-decisions.sh cancel`: where it is
  merge,        \* ralph-merge-calculator.sh and the integration pipeline: their outputs
  output,       \* agent -> the markers in the output of its last builder call, in order
  orch          \* run_orchestrator: where it is, its checks and restarts, its final report

vars == << prd, stateExists, state, lock, heartbeat, now, pc, call, cur, iter,
           todo, cycles, ncalls, holders, lastInit, ledger,
           decision, tmpfile, asking, answering, returned, cancelling, merge,
           output, orch >>

\* The decision queue, and the callers of answer_decision: the handler of
\* the Slack listener (`if answer_decision ...`) and the command line
\* (`ralph-decisions.sh answer`).
decvars == << decision, tmpfile, asking, answering, returned, cancelling >>
Answerers == {"slack", "cli-answer"}
NoFile == [status |-> "absent"]
NoAnswer == [pc |-> "idle", answer |-> Null, result |-> "none", calls |-> 0]
NoReturn == [code |-> -1, answer |-> Null]

\* Nothing of the merge calculator has run: no order printed, no validation,
\* no merge-plan.md, no integration pipeline.
NoMerge == [order |-> << "-" >>, validated |-> "none", plan |-> << "-" >>,
            reported |-> FALSE, pipeline |-> "none"]

\* run_orchestrator has started the heartbeat daemon and the agents and is
\* about to enter wait_for_completion.
NoOrch == [pc |-> "wait", checks |-> 0, restarts |-> 0, result |-> "none"]

NoDecisions ==
  /\ decision = NoFile
  /\ tmpfile = NoFile
  /\ asking = "idle"
  /\ answering = [p \in Answerers |-> NoAnswer]
  /\ returned = NoReturn
  /\ cancelling = "idle"

NoCall == [fn |-> "none", fid |-> Null, agent |-> Null, arg |-> Null,
           incr |-> FALSE, ok |-> FALSE, committed |-> FALSE]

Ids == IdsOf(prd)

\* ---------------------------------------------------------------- jq filters
\* jq: a string b is contained in a string a if b is a substring of a.
IsSubstring(b, a) ==
  \E i \in 1..Len(a) : \E j \in i..Len(a) : SubSeq(a, i, j) = b

\* `$list | contains([$id])`: an array contains [$id] if $id is contained in
\* one of its elements.
JqContains(list, id) == \E x \in list : IsSubstring(id, x)

\* `[.features[] | select(.status == "completed") | .id]` and its pending twin.
CompletedIds(st) == {f \in DOMAIN st : st[f].status = "completed"}
PendingIds(st) == {f \in DOMAIN st : st[f].status = "pending"}

\* `(.depends_on // []) - $completed | length == 0`
DepsMet(spec, completed) ==
  \A i \in DOMAIN spec.depends_on : spec.depends_on[i] \in completed

\* The features claim_next_feature selects among, in catalog order.
Claimable(cat, st) ==
  SelectSeq(cat, LAMBDA r : JqContains(PendingIds(st), r.id)
                            /\ DepsMet(r, CompletedIds(st)))

\* `sort_by(.priority) | first | .id`: jq's sort is stable, so the first of the
\* features of least priority in catalog order.
FirstByPriority(fs) ==
  fs[CHOOSE i \in DOMAIN fs :
       /\ \A j \in DOMAIN fs : fs[j].priority >= fs[i].priority
       /\ \A j \in 1..(i - 1) : fs[j].priority > fs[i].priority].id

\* get_claimable_features: the same two selects as claim_next_feature.
ClaimableIds(cat, st) == {Claimable(cat, st)[i].id : i \in DOMAIN Claimable(cat, st)}

\* `(.features[] | select(.id == $id)) |= . + {...}` of each function.
ClaimUpdate(st, fid, agent, ts) ==
  [st EXCEPT ![fid] = [@ EXCEPT !.status = "in_progress", !.claimed_by = agent,
                                !.claimed_at = ts, !.branch = "feature/" \o fid]]

ReleaseUpdate(st, fid) ==
  [st EXCEPT ![fid] = [@ EXCEPT !.status = "pending", !.claimed_by = Null,
                                !.claimed_at = NoTime]]

CompleteUpdate(st, fid, ts, pr) ==
  [st EXCEPT ![fid] = [@ EXCEPT !.status = "completed", !.completed_at = ts,
                                !.pr_url = pr]]

BlockUpdate(st, fid, reason) ==
  [st EXCEPT ![fid] = [@ EXCEPT !.status = "blocked", !.blocked_reason = reason]]

CiUpdate(st, fid, status, incr) ==
  [st EXCEPT ![fid] = [@ EXCEPT !.ci_status = status,
                                !.ci_attempts = IF incr THEN @ + 1 ELSE @]]

\* The write of the function a process is in.
Updated(c, st, ts) ==
  CASE c.fn \in {"claim", "claim_next"} -> ClaimUpdate(st, c.fid, c.agent, ts)
    [] c.fn = "release" -> ReleaseUpdate(st, c.fid)
    [] c.fn = "complete" -> CompleteUpdate(st, c.fid, ts, c.arg)
    [] c.fn = "block" -> BlockUpdate(st, c.fid, c.arg)
    [] c.fn = "update_ci" -> CiUpdate(st, c.fid, c.arg, c.incr)

\* ------------------------------------------------------------------ budget
\* The day of a second (date +%Y-%m-%d).
Day(t) == t \div 86400

\* log_cost: the cost bc computes with scale=6, in millionths of a dollar,
\* and the line it appends (date, cost; the other fields are not read).
Cost(tokens_in, tokens_out) ==
  tokens_in * COST_PER_INPUT_TOKEN + tokens_out * COST_PER_OUTPUT_TOKEN

CostLine(t, tokens_in, tokens_out) ==
  [day |-> Day(t), cost |-> Cost(tokens_in, tokens_out)]

\* get_daily_cost: awk adds field 6 of the lines whose field 1 matches today
\* and prints the sum with "%.4f": the result in ten-thousandths of a dollar.
RECURSIVE AwkSum(_, _)
AwkSum(lines, today) ==
  IF lines = << >> THEN 0
  ELSE (IF Head(lines).day = today THEN Head(lines).cost ELSE 0)
         + AwkSum(Tail(lines), today)

Printf4(micro) == (micro + 50) \div 100

\* get_daily_cost without the match of today.
get_daily_cost_all(lines, t) == Printf4(AwkSum(lines, Day(t)) + AwkSum(lines, Day(t) - 1))

get_daily_cost(lines, t) == Printf4(AwkSum(lines, Day(t)))

\* check_budget: return 1 (FALSE here) when daily_total > MAX_DAILY_COST_USD.
check_budget(lines, t) ==
  IF get_daily_cost(lines, t) > MAX_DAILY_COST_USD * 10000 THEN FALSE ELSE TRUE

\* ------------------------------------------------------------------- Init
Init ==
  /\ prd \in Catalogs
  /\ stateExists = FALSE
  /\ state = InitialState(prd)
  /\ lock = "free"
  /\ heartbeat = [a \in Agents |-> NoTime]
  /\ now = 0
  /\ pc = [p \in Procs |-> IF p \in Workers THEN "start"
                           ELSE IF p = Reaper THEN "sleep" ELSE "idle"]
  /\ call = [p \in Procs |-> NoCall]
  /\ cur = [a \in Workers |-> Null]
  /\ iter = [a \in Workers |-> 0]
  /\ todo = << >>
  /\ cycles = 0
  /\ ncalls = 0
  /\ holders = [f \in IdsOf(prd) |-> {}]
  /\ lastInit = [p \in Procs |-> "none"]
  /\ ledger = << >>
  /\ NoDecisions
  /\ merge = NoMerge
  /\ output = [a \in Workers |-> << >>]
  /\ orch = NoOrch

\* ------------------------------------------------------------- init_ralph
\* What follows init_ralph: the loop of run_agent, or the end of a direct call.
AfterInit(p) == IF p \in Workers THEN "loop" ELSE "idle"

\* init_ralph without its test of the file.
InitCheckNoTest(p) ==
  /\ pc[p] = "start"
  /\ pc' = [pc EXCEPT ![p] = "init_write"]
  /\ lastInit' = [lastInit EXCEPT ![p] = "absent"]
  /\ UNCHANGED << output, orch, merge, decvars, ledger, prd, stateExists, state, lock, heartbeat, now, call, cur, iter,
                  todo, cycles, ncalls, holders >>

\* run_agent starts with init_ralph, outside the lock, and so do the list,
\* status, in-progress and progress commands of ralph-claim.sh when the state
\* file is missing, and run_orchestrator: the test of the file.
InitCheck(p) ==
  /\ pc[p] = "start"
  /\ pc' = [pc EXCEPT ![p] = IF stateExists THEN AfterInit(p) ELSE "init_write"]
  /\ lastInit' = [lastInit EXCEPT ![p] =
        IF ~stateExists THEN "absent"
        ELSE IF \E f \in Ids : state[f] # InitRecord THEN "progress" ELSE "fresh"]
  /\ UNCHANGED << output, orch, merge, decvars, ledger, prd, stateExists, state, lock, heartbeat, now, call, cur, iter,
                  todo, cycles, ncalls, holders >>

\* ... and the jq that writes every feature as pending.
InitWrite(p) ==
  /\ pc[p] = "init_write"
  /\ state' = InitialState(prd)
  /\ stateExists' = TRUE
  /\ pc' = [pc EXCEPT ![p] = AfterInit(p)]
  /\ UNCHANGED << output, orch, merge, decvars, ledger, prd, lock, heartbeat, now, call, cur, iter, todo, cycles,
                  ncalls, holders, lastInit >>

\* --------------------------------------------------------------- the lock
\* What a process does once the function it called has returned.
\* run_agent: a claimed feature goes to run_feature_loop; without one the
\* agent counts pending and in_progress in prd.json and exits on 0 and 0.
\* The heartbeat daemon runs under set -e: a lock timeout ends it.
PrdCount(status) == Cardinality({i \in DOMAIN prd : prd[i].status = status})

Return(p, ok) ==
  /\ call' = [call EXCEPT ![p] = NoCall]
  /\ IF p \in Workers
       THEN IF call[p].fn = "claim_next"
              THEN IF ok
                     THEN /\ pc' = [pc EXCEPT ![p] = "builder"]
                          /\ cur' = [cur EXCEPT ![p] = call[p].fid]
                          /\ iter' = [iter EXCEPT ![p] = 0]
                     ELSE /\ pc' = [pc EXCEPT ![p] =
                                IF PrdCount("pending") = 0 /\ PrdCount("in_progress") = 0
                                  THEN "done" ELSE "loop"]
                          /\ UNCHANGED << cur, iter >>
              ELSE /\ pc' = [pc EXCEPT ![p] = "loop"]
                   /\ cur' = [cur EXCEPT ![p] = Null]
                   /\ UNCHANGED iter
       ELSE /\ UNCHANGED << cur, iter >>
            /\ pc' = [pc EXCEPT ![p] =
                  IF p \in Callers THEN "idle"
                  ELSE IF ~ok THEN "dead"
                  ELSE IF call[p].fn = "release" THEN "stale" ELSE "ci"]
  /\ todo' = IF p = Reaper /\ ok THEN Tail(todo) ELSE todo

\* acquire_lock: mkdir creates the directory or fails.
\* The builder's output is read by the marker tests only: once the caller is
\* inside complete_feature or block_feature it plays no part any more.
OutputRead(p) == output' = [a \in Workers |-> IF a = p THEN << >> ELSE output[a]]

AcquireLock(p) ==
  /\ pc[p] = "acquire"
  /\ lock = "free"
  /\ lock' = p
  /\ pc' = [pc EXCEPT ![p] =
        IF call[p].fn \in {"claim", "claim_next"} THEN "check" ELSE "write"]
  /\ OutputRead(p)
  /\ UNCHANGED << orch, merge, decvars, ledger, prd, stateExists, state, heartbeat, now, call, cur, iter, todo,
                  cycles, ncalls, holders, lastInit >>

\* ... and gives up with TIMEOUT after max_wait seconds of failed mkdir.
AcquireTimeout(p) ==
  /\ pc[p] = "acquire"
  /\ lock # "free"
  /\ Return(p, FALSE)
  /\ OutputRead(p)
  /\ UNCHANGED << orch, merge, decvars, ledger, prd, stateExists, state, lock, heartbeat, now, cycles, ncalls,
                  holders, lastInit >>

\* release_lock: rm -rf of the directory if it is there, whoever made it.
\* release_lock on the lock directory as it is (l: "free" when it is gone):
\* the directory afterwards, and the return status.
release_lock(l) == [lock |-> "free", status |-> IF l # "free" THEN 0 ELSE 1]

\* release_lock as the last step of a ralph-claim.sh function.  The heartbeat
\* daemon runs under set -e: a failing release_lock ends it as well.
ReleaseLock(p) ==
  /\ pc[p] = "release"
  /\ lock' = release_lock(lock).lock
  /\ Return(p, call[p].ok /\ (p = Reaper => release_lock(lock).status = 0))
  /\ UNCHANGED << output, orch, merge, decvars, ledger, prd, stateExists, state, heartbeat, now, cycles, ncalls,
                  holders, lastInit >>

\* ------------------------------------------------------------ ralph-claim.sh
\* The state the checks of claim_feature / claim_next_feature read: inside
\* the lock, init_ralph first if the file is missing.
Loaded == IF stateExists THEN state ELSE InitialState(prd)

\* claim_feature, after the lock: status must be pending and the dependencies
\* completed, else release_lock and return 1.
ClaimCheck(p) ==
  /\ pc[p] = "check"
  /\ call[p].fn = "claim"
  /\ stateExists' = TRUE
  /\ state' = Loaded
  /\ pc' = [pc EXCEPT ![p] =
        IF /\ Loaded[call[p].fid].status = "pending"
           /\ DepsMet(SpecOf(prd, call[p].fid), CompletedIds(Loaded))
          THEN "write" ELSE "release"]
  /\ UNCHANGED << output, orch, merge, decvars, ledger, prd, lock, heartbeat, now, call, cur, iter, todo, cycles,
                  ncalls, holders, lastInit >>

\* claim_next_feature, after the lock: the first claimable feature by
\* priority, or release_lock and return 1 when there is none.
ClaimNextSelect(p) ==
  /\ pc[p] = "check"
  /\ call[p].fn = "claim_next"
  /\ stateExists' = TRUE
  /\ state' = Loaded
  /\ IF Claimable(prd, Loaded) = << >>
       THEN /\ pc' = [pc EXCEPT ![p] = "release"]
            /\ UNCHANGED call
       ELSE /\ pc' = [pc EXCEPT ![p] = "write"]
            /\ call' = [call EXCEPT ![p].fid = FirstByPriority(Claimable(prd, Loaded))]
  /\ UNCHANGED << output, orch, merge, decvars, ledger, prd, lock, heartbeat, now, cur, iter, todo, cycles, ncalls,
                  holders, lastInit >>

\* The jq update and the mv of claim, claim_next, release, complete, block and
\* update_ci; jq fails on a missing state file and nothing is written.  The
\* function then goes on to release_lock and return 0.
WriteState(p) ==
  /\ pc[p] = "write"
  /\ state' = IF stateExists THEN Updated(call[p], state, now) ELSE state
  /\ holders' =
       IF ~stateExists \/ call[p].fn = "update_ci" THEN holders
       ELSE IF call[p].fn \in {"claim", "claim_next"}
         THEN [holders EXCEPT ![call[p].fid] = @ \cup {call[p].agent}]
         ELSE [holders EXCEPT ![call[p].fid] = {}]
  /\ pc' = [pc EXCEPT ![p] = "release"]
  /\ call' = [call EXCEPT ![p].ok = TRUE, ![p].committed = stateExists]
  /\ UNCHANGED << output, orch, merge, decvars, ledger, prd, stateExists, lock, heartbeat, now, cur, iter, todo, cycles,
                  ncalls, lastInit >>

\* The calls of the command line of ralph-claim.sh (and of update_ci_status,
\* which a sourcing script calls).  Direct claims use the agent ids that no
\* running worker has.
ACall(fn, fid, agent, arg, incr) ==
  [fn |-> fn, fid |-> fid, agent |-> agent, arg |-> arg, incr |-> incr, ok |-> FALSE,
   committed |-> FALSE]

ClaimCalls ==
  {ACall("claim", f, a, Null, FALSE) : f \in Ids, a \in Agents \ Workers}
    \cup {ACall("claim_next", Null, a, Null, FALSE) : a \in Agents \ Workers}

OtherCalls ==
  {ACall("release", f, Null, "manual", FALSE) : f \in Ids}
    \cup {ACall("complete", f, Null, "", FALSE) : f \in Ids}
    \cup {ACall("block", f, Null, "manual", FALSE) : f \in Ids}
    \cup {ACall("update_ci", f, Null, "failed", b) : f \in Ids, b \in BOOLEAN}

\* `ralph-claim.sh claim <id> <agent>` and `claim-next <agent>`.
DirectClaim(p) ==
  /\ pc[p] = "idle"
  /\ ncalls < MaxCalls
  /\ \E c \in ClaimCalls : call' = [call EXCEPT ![p] = c]
  /\ pc' = [pc EXCEPT ![p] = "acquire"]
  /\ ncalls' = ncalls + 1
  /\ UNCHANGED << output, orch, merge, decvars, ledger, prd, stateExists, state, lock, heartbeat, now, cur, iter, todo,
                  cycles, holders, lastInit >>

\* `ralph-claim.sh release | complete | block`, and update_ci_status.
DirectCall(p) ==
  /\ pc[p] = "idle"
  /\ ncalls < MaxCalls
  /\ \E c \in OtherCalls : call' = [call EXCEPT ![p] = c]
  /\ pc' = [pc EXCEPT ![p] = "acquire"]
  /\ ncalls' = ncalls + 1
  /\ UNCHANGED << output, orch, merge, decvars, ledger, prd, stateExists, state, lock, heartbeat, now, cur, iter, todo,
                  cycles, holders, lastInit >>

\* A direct invocation that begins with init_ralph.
DirectInit(p) ==
  /\ pc[p] = "idle"
  /\ ncalls < MaxCalls
  /\ pc' = [pc EXCEPT ![p] = "start"]
  /\ ncalls' = ncalls + 1
  /\ UNCHANGED << output, orch, merge, decvars, ledger, prd, stateExists, state, lock, heartbeat, now, call, cur, iter,
                  todo, cycles, holders, lastInit >>

\* `ralph-lock.sh force-release state-claim`, and the EXIT trap of any
\* ralph-orchestrator.sh invocation (here `status`, which started no agent):
\* rm -rf of the lock directories.
ForceReleaseLock(p) ==
  /\ pc[p] = "idle"
  /\ ncalls < MaxCalls
  /\ lock # "free"
  /\ lock' = "free"
  /\ ncalls' = ncalls + 1
  /\ UNCHANGED << output, orch, merge, decvars, ledger, prd, stateExists, state, heartbeat, now, pc, call, cur, iter,
                  todo, cycles, holders, lastInit >>

Cleanup(p) ==
  /\ pc[p] = "idle"
  /\ ncalls < MaxCalls
  /\ lock' = "free"
  /\ ncalls' = ncalls + 1
  /\ UNCHANGED << output, orch, merge, decvars, ledger, prd, stateExists, state, heartbeat, now, pc, call, cur, iter,
                  todo, cycles, holders, lastInit >>

\* ------------------------------------------------------------ ralph-agent.sh
\* run_agent, top of the loop: touch_heartbeat, then check_budget: over
\* budget the agent sleeps and comes back here, else claim_next_feature.
AgentLoop(a) ==
  /\ pc[a] = "loop"
  /\ heartbeat' = [heartbeat EXCEPT ![a] = now]
  /\ IF check_budget(ledger, now)
       THEN /\ call' = [call EXCEPT ![a] = ACall("claim_next", Null, a, Null, FALSE)]
            /\ pc' = [pc EXCEPT ![a] = "acquire"]
       ELSE UNCHANGED << pc, call >>
  /\ UNCHANGED << output, orch, merge, decvars, ledger, prd, stateExists, state, lock, now, cur, iter, todo, cycles,
                  ncalls, holders, lastInit >>

\* run_feature_loop, top of one iteration: the iteration is counted, then
\* touch_heartbeat, then check_budget: over budget the agent sleeps and goes
\* to the next iteration, else the builder is started and runs for as long
\* as it takes.
Markers == {"complete", "blocked", "stuck", "none"}

Builder(a) ==
  /\ pc[a] = "builder"
  /\ iter[a] < MaxIterations
  /\ iter' = [iter EXCEPT ![a] = @ + 1]
  /\ heartbeat' = [heartbeat EXCEPT ![a] = now]
  /\ pc' = [pc EXCEPT ![a] = IF check_budget(ledger, now) THEN "claude" ELSE "builder"]
  /\ UNCHANGED << output, orch, merge, decvars, ledger, prd, stateExists, state, lock, now, call, cur, todo, cycles,
                  ncalls, holders, lastInit >>

\* The outputs of one builder call: its terminal markers, in the order in
\* which they stand in the output.
Outputs == UNION {[1..n -> Markers \ {"none"}] : n \in 0..MaxMarkers}

\* The three greps of run_feature_loop, in their order: FEATURE_COMPLETE,
\* then BLOCKED, then STUCK, each over the whole output.
GrepMarker(out) ==
  IF \E i \in DOMAIN out : out[i] = "complete" THEN "complete"
  ELSE IF \E i \in DOMAIN out : out[i] = "blocked" THEN "blocked"
  ELSE IF \E i \in DOMAIN out : out[i] = "stuck" THEN "stuck"
  ELSE "none"

\* ... the builder returns: the marker found in its output, or none (also
\* when the builder failed), and then the next iteration.
BuilderDone(a) ==
  /\ pc[a] = "claude"
  /\ \E out \in Outputs :
       /\ output' = [output EXCEPT ![a] = out]
       /\ IF GrepMarker(out) = "none"
            THEN /\ pc' = [pc EXCEPT ![a] = "builder"]
                 /\ UNCHANGED call
            ELSE /\ pc' = [pc EXCEPT ![a] = "acquire"]
                 /\ call' = [call EXCEPT ![a] =
                       IF GrepMarker(out) = "complete"
                         THEN ACall("complete", cur[a], Null, "", FALSE)
                         ELSE ACall("block", cur[a], Null, GrepMarker(out), FALSE)]
  /\ UNCHANGED << orch, merge, decvars, ledger, prd, stateExists, state, lock, heartbeat, now, cur, iter, todo,
                  cycles, ncalls, holders, lastInit >>

\* log_cost, called for a builder call that is running: one line is appended
\* to cost.log.
TokenCounts == { << 8333320, 0 >>, << 8333340, 0 >>, << 5000000, 666672 >> }

LogCost(a) ==
  /\ pc[a] = "claude"
  /\ Len(ledger) < MaxRecords
  /\ \E tk \in TokenCounts : ledger' = Append(ledger, CostLine(now, tk[1], tk[2]))
  /\ UNCHANGED << output, orch, merge, decvars, prd, stateExists, state, lock, heartbeat, now, pc, call, cur, iter,
                  todo, cycles, ncalls, holders, lastInit >>

\* ... and after the last iteration block_feature "Max iterations reached".
BuilderExhausted(a) ==
  /\ pc[a] = "builder"
  /\ iter[a] >= MaxIterations
  /\ pc' = [pc EXCEPT ![a] = "acquire"]
  /\ call' = [call EXCEPT ![a] = ACall("block", cur[a], Null, "max-iterations", FALSE)]
  /\ UNCHANGED << output, orch, merge, decvars, ledger, prd, stateExists, state, lock, heartbeat, now, cur, iter, todo,
                  cycles, ncalls, holders, lastInit >>

\* The agent process ends while it works on a feature (kill, power loss, the
\* cleanup of the orchestrator): nothing is written, the claim stays.
WorkerCrash(a) ==
  /\ pc[a] \in {"builder", "claude"}
  /\ pc' = [pc EXCEPT ![a] = "crashed"]
  /\ UNCHANGED << output, orch, merge, decvars, ledger, prd, stateExists, state, lock, heartbeat, now, call, cur, iter,
                  todo, cycles, ncalls, holders, lastInit >>

\* -------------------------------------------------------- ralph-heartbeat.sh
\* `sub("\\+.*$"; "Z") | fromdateiso8601`: the offset is cut off and the local
\* reading is taken as UTC.
FromDateIso(at, off) == at

\* release_stale_claims, the scan: id and claimed_by of the features that
\* prd.json shows in_progress for more than the threshold.
StaleScan(cat, t) ==
  SelectSeq(cat, LAMBDA r : /\ r.status = "in_progress"
                            /\ r.claimed_at # NoTime
                            /\ t - FromDateIso(r.claimed_at, r.claimed_off)
                                 > STALE_CLAIM_THRESHOLD)

\* check_ci_failures, the scan.
CiScan(cat) ==
  SelectSeq(cat, LAMBDA r : r.ci_status = "failed" /\ r.ci_attempts >= MAX_CI_ATTEMPTS)

\* is_agent_alive: the heartbeat file exists and is no older than the threshold.
IsAgentAlive(agent, t) ==
  /\ agent \in Agents
  /\ heartbeat[agent] # NoTime
  /\ ~(t - heartbeat[agent] > STALE_CLAIM_THRESHOLD)

\* run_heartbeat_daemon wakes up: release_stale_claims scans prd.json and,
\* with nothing to release, check_ci_failures does; a wake-up over budget,
\* or one that finds nothing in either scan, changes no file and is no step.
ReaperScan ==
  /\ pc[Reaper] = "sleep"
  /\ cycles < MaxCycles
  /\ check_budget(ledger, now)
  /\ StaleScan(prd, now) # << >> \/ CiScan(prd) # << >>
  /\ cycles' = cycles + 1
  /\ IF StaleScan(prd, now) # << >>
       THEN /\ todo' = StaleScan(prd, now)
            /\ pc' = [pc EXCEPT ![Reaper] = "stale"]
       ELSE /\ todo' = CiScan(prd)
            /\ pc' = [pc EXCEPT ![Reaper] = "ci"]
  /\ UNCHANGED << output, orch, merge, decvars, ledger, prd, stateExists, state, lock, heartbeat, now, call, cur, iter,
                  ncalls, holders, lastInit >>

\* release_stale_claims, the loop: release_claim unless the agent is alive;
\* after the last line, the scan of check_ci_failures.
ReaperStale ==
  /\ pc[Reaper] = "stale"
  /\ IF todo = << >>
       THEN /\ todo' = CiScan(prd)
            /\ pc' = [pc EXCEPT ![Reaper] = IF CiScan(prd) = << >> THEN "sleep" ELSE "ci"]
            /\ UNCHANGED call
       ELSE IF IsAgentAlive(Head(todo).claimed_by, now)
         THEN /\ todo' = Tail(todo)
              /\ UNCHANGED << pc, call >>
         ELSE /\ pc' = [pc EXCEPT ![Reaper] = "acquire"]
              /\ call' = [call EXCEPT ![Reaper] =
                    ACall("release", Head(todo).id, Null, "stale", FALSE)]
              /\ UNCHANGED todo
  /\ UNCHANGED << output, orch, merge, decvars, ledger, prd, stateExists, state, lock, heartbeat, now, cur, iter, cycles,
                  ncalls, holders, lastInit >>

\* check_ci_failures, the loop: block_feature for each; then sleep.
ReaperCi ==
  /\ pc[Reaper] = "ci"
  /\ IF todo = << >>
       THEN /\ pc' = [pc EXCEPT ![Reaper] = "sleep"]
            /\ UNCHANGED call
       ELSE /\ pc' = [pc EXCEPT ![Reaper] = "acquire"]
            /\ call' = [call EXCEPT ![Reaper] =
                  ACall("block", Head(todo).id, Null, "ci-failed", FALSE)]
  /\ UNCHANGED << output, orch, merge, decvars, ledger, prd, stateExists, state, lock, heartbeat, now, cur, iter, todo,
                  cycles, ncalls, holders, lastInit >>

\* ------------------------------------------------------------------- time
Tick ==
  /\ now < MaxTicks * TickSeconds
  /\ now' = now + TickSeconds
  /\ UNCHANGED << output, orch, merge, decvars, ledger, prd, stateExists, state, lock, heartbeat, pc, call, cur, iter,
                  todo, cycles, ncalls, holders, lastInit >>

\* ------------------------------------------------------------------- Next
Next ==
  \/ \E p \in Workers \cup Callers : InitCheck(p)
  \/ \E p \in Workers \cup Callers : InitWrite(p)
  \/ \E p \in Procs : AcquireLock(p)
  \/ \E p \in Procs : AcquireTimeout(p)
  \/ \E p \in Procs : ClaimCheck(p)
  \/ \E p \in Procs : ClaimNextSelect(p)
  \/ \E p \in Procs : WriteState(p)
  \/ \E p \in Procs : ReleaseLock(p)
  \/ \E p \in Callers : DirectClaim(p)
  \/ \E p \in Callers : DirectCall(p)
  \/ \E p \in Callers : DirectInit(p)
  \/ \E p \in Callers : ForceReleaseLock(p)
  \/ \E p \in Callers : Cleanup(p)
  \/ \E a \in Workers : AgentLoop(a)
  \/ \E a \in Workers : Builder(a)
  \/ \E a \in Workers : BuilderDone(a)
  \/ \E a \in Workers : BuilderExhausted(a)
  \/ \E a \in Workers : WorkerCrash(a)
  \/ ReaperScan
  \/ ReaperStale
  \/ ReaperCi
  \/ Tick

Spec == Init /\ [][Next]_vars

\* -------------------------------------------------------- claims, lock intact
\* The workers and the direct claims once run_orchestrator has called
\* init_ralph, with nobody removing a lock and no clock: claim, claim_next and
\* the workers' complete and block, each entirely under its own lock.
InitStarted ==
  /\ prd \in Catalogs
  /\ stateExists = TRUE
  /\ state = InitialState(prd)
  /\ lock = "free"
  /\ heartbeat = [a \in Agents |-> NoTime]
  /\ now = 0
  /\ pc = [p \in Procs |-> IF p \in Workers THEN "start"
                           ELSE IF p = Reaper THEN "sleep" ELSE "idle"]
  /\ call = [p \in Procs |-> NoCall]
  /\ cur = [a \in Workers |-> Null]
  /\ iter = [a \in Workers |-> 0]
  /\ todo = << >>
  /\ cycles = 0
  /\ ncalls = 0
  /\ holders = [f \in IdsOf(prd) |-> {}]
  /\ lastInit = [p \in Procs |-> "none"]
  /\ ledger = << >>
  /\ NoDecisions
  /\ merge = NoMerge
  /\ output = [a \in Workers |-> << >>]
  /\ orch = NoOrch

NextClaims ==
  \/ \E p \in Workers : InitCheck(p)
  \/ \E p \in Procs : AcquireLock(p)
  \/ \E p \in Procs : AcquireTimeout(p)
  \/ \E p \in Procs : ClaimCheck(p)
  \/ \E p \in Procs : ClaimNextSelect(p)
  \/ \E p \in Procs : WriteState(p)
  \/ \E p \in Procs : ReleaseLock(p)
  \/ \E p \in Callers : DirectClaim(p)
  \/ \E a \in Workers : AgentLoop(a)
  \/ \E a \in Workers : Builder(a)
  \/ \E a \in Workers : BuilderDone(a)
  \/ \E a \in Workers : BuilderExhausted(a)

SpecClaims == InitStarted /\ [][NextClaims]_vars

\* --------------------------------------------- workers and direct invocations
\* The workers and every direct invocation, from no state file on, without
\* the heartbeat daemon and the clock.
NextCalls ==
  \/ \E p \in Workers \cup Callers : InitCheck(p)
  \/ \E p \in Workers \cup Callers : InitWrite(p)
  \/ \E p \in Procs : AcquireLock(p)
  \/ \E p \in Procs : AcquireTimeout(p)
  \/ \E p \in Procs : ClaimCheck(p)
  \/ \E p \in Procs : ClaimNextSelect(p)
  \/ \E p \in Procs : WriteState(p)
  \/ \E p \in Procs : ReleaseLock(p)
  \/ \E p \in Callers : DirectClaim(p)
  \/ \E p \in Callers : DirectCall(p)
  \/ \E p \in Callers : DirectInit(p)
  \/ \E p \in Callers : ForceReleaseLock(p)
  \/ \E p \in Callers : Cleanup(p)
  \/ \E a \in Workers : AgentLoop(a)
  \/ \E a \in Workers : Builder(a)
  \/ \E a \in Workers : BuilderDone(a)
  \/ \E a \in Workers : BuilderExhausted(a)

SpecCalls == Init /\ [][NextCalls]_vars

\* ------------------------------------------- worker, heartbeat daemon, clock
\* A prd.json that names the running agent as the holder of X, as left by a
\* run of the layout that kept the state in prd.json.
BusyCatalog == << LegacyClaimed("X", <<>>, 1, "agent-1", 0, 0) >>
ReaperCatalogs == {ChainCatalog, BusyCatalog}
AllIds == UNION {IdsOf(cat) : cat \in Catalogs \cup ReaperCatalogs}

InitReaper ==
  /\ prd \in ReaperCatalogs
  /\ stateExists = FALSE
  /\ state = InitialState(prd)
  /\ lock = "free"
  /\ heartbeat = [a \in Agents |-> NoTime]
  /\ now = 0
  /\ pc = [p \in Procs |-> IF p \in Workers THEN "start"
                           ELSE IF p = Reaper THEN "sleep" ELSE "idle"]
  /\ call = [p \in Procs |-> NoCall]
  /\ cur = [a \in Workers |-> Null]
  /\ iter = [a \in Workers |-> 0]
  /\ todo = << >>
  /\ cycles = 0
  /\ ncalls = 0
  /\ holders = [f \in IdsOf(prd) |-> {}]
  /\ lastInit = [p \in Procs |-> "none"]
  /\ ledger = << >>
  /\ NoDecisions
  /\ merge = NoMerge
  /\ output = [a \in Workers |-> << >>]
  /\ orch = NoOrch

\* One step of a running process p: every step but the end of the process.
ProcStep(p) ==
  \/ InitCheck(p)
  \/ InitWrite(p)
  \/ AcquireLock(p)
  \/ AcquireTimeout(p)
  \/ ClaimNextSelect(p)
  \/ WriteState(p)
  \/ ReleaseLock(p)

WorkerStep(a) ==
  \/ ProcStep(a)
  \/ AgentLoop(a)
  \/ Builder(a)
  \/ BuilderDone(a)
  \/ BuilderExhausted(a)

ReaperStep ==
  \/ ProcStep(Reaper)
  \/ ReaperScan
  \/ ReaperStale

NextReaper ==
  \/ \E a \in Workers : WorkerStep(a)
  \/ \E a \in Workers : WorkerCrash(a)
  \/ ReaperStep
  \/ Tick

\* Every process that has not ended is scheduled, and the clock advances.
SpecReaper ==
  /\ InitReaper
  /\ [][NextReaper]_vars
  /\ \A a \in Workers : WF_vars(WorkerStep(a))
  /\ WF_vars(ReaperStep)
  /\ WF_vars(Tick)

\* ------------------------------------------------ worker, daemon, cost.log
\* cost.log as an earlier run left it: empty, or with one line of yesterday
\* or of today.
InitialLedgers ==
  { << >> }
    \cup { << CostLine(0 - 86400, tk[1], tk[2]) >> : tk \in { << 8333320, 0 >> } }
    \cup { << CostLine(0, tk[1], tk[2]) >> : tk \in TokenCounts }

InitBudget ==
  /\ prd \in Catalogs
  /\ stateExists = FALSE
  /\ state = InitialState(prd)
  /\ lock = "free"
  /\ heartbeat = [a \in Agents |-> NoTime]
  /\ now = 0
  /\ pc = [p \in Procs |-> IF p \in Workers THEN "start"
                           ELSE IF p = Reaper THEN "sleep" ELSE "idle"]
  /\ call = [p \in Procs |-> NoCall]
  /\ cur = [a \in Workers |-> Null]
  /\ iter = [a \in Workers |-> 0]
  /\ todo = << >>
  /\ cycles = 0
  /\ ncalls = 0
  /\ holders = [f \in IdsOf(prd) |-> {}]
  /\ lastInit = [p \in Procs |-> "none"]
  /\ ledger \in InitialLedgers
  /\ NoDecisions
  /\ merge = NoMerge
  /\ output = [a \in Workers |-> << >>]
  /\ orch = NoOrch

NextBudget ==
  \/ \E a \in Workers : WorkerStep(a)
  \/ \E a \in Workers : LogCost(a)
  \/ ReaperStep
  \/ ReaperCi
  \/ Tick

SpecBudget == InitBudget /\ [][NextBudget]_vars

\* ------------------------------------------------- equal priorities
\* A prd.json whose two features have the same priority and stand in the
\* file in descending order of id.
TieCatalog == << Feature("T2", <<>>, 1), Feature("T1", <<>>, 1) >>
OrderCatalogs == {TieCatalog, ChainCatalog}

InitOrder ==
  /\ prd \in OrderCatalogs
  /\ stateExists = TRUE
  /\ state = InitialState(prd)
  /\ lock = "free"
  /\ heartbeat = [a \in Agents |-> NoTime]
  /\ now = 0
  /\ pc = [p \in Procs |-> IF p \in Workers THEN "start"
                           ELSE IF p = Reaper THEN "sleep" ELSE "idle"]
  /\ call = [p \in Procs |-> NoCall]
  /\ cur = [a \in Workers |-> Null]
  /\ iter = [a \in Workers |-> 0]
  /\ todo = << >>
  /\ cycles = 0
  /\ ncalls = 0
  /\ holders = [f \in IdsOf(prd) |-> {}]
  /\ lastInit = [p \in Procs |-> "none"]
  /\ ledger = << >>
  /\ NoDecisions
  /\ merge = NoMerge
  /\ output = [a \in Workers |-> << >>]
  /\ orch = NoOrch

SpecOrder == InitOrder /\ [][NextClaims]_vars

\* ------------------------------------------- a dependency with failed CI
\* A prd.json of the earlier layout: Y has failed CI three times and Z
\* depends on Y.
CiChainCatalog == << LegacyCiFailed("Y", <<>>, 1, 3), Feature("Z", <<"Y">>, 2) >>
RaceCatalogs == {CiChainCatalog, LegacyCatalog}

InitRace ==
  /\ prd \in RaceCatalogs
  /\ stateExists = FALSE
  /\ state = InitialState(prd)
  /\ lock = "free"
  /\ heartbeat = [a \in Agents |-> NoTime]
  /\ now = 0
  /\ pc = [p \in Procs |-> IF p \in Workers THEN "start"
                           ELSE IF p = Reaper THEN "sleep" ELSE "idle"]
  /\ call = [p \in Procs |-> NoCall]
  /\ cur = [a \in Workers |-> Null]
  /\ iter = [a \in Workers |-> 0]
  /\ todo = << >>
  /\ cycles = 0
  /\ ncalls = 0
  /\ holders = [f \in IdsOf(prd) |-> {}]
  /\ lastInit = [p \in Procs |-> "none"]
  /\ ledger = << >>
  /\ NoDecisions
  /\ merge = NoMerge
  /\ output = [a \in Workers |-> << >>]
  /\ orch = NoOrch

SpecRace == InitRace /\ [][Next]_vars

\* ------------------------------------------------------ ralph-decisions.sh
sched == << prd, stateExists, state, lock, heartbeat, now, pc, call, cur, iter,
            todo, cycles, ncalls, holders, lastInit, ledger, output >>

\* `tr ',' '\n'`: the pieces of the comma-separated options.
RECURSIVE SplitComma(_)
SplitComma(s) ==
  IF \E i \in 1..Len(s) : SubSeq(s, i, i) = ","
    THEN LET i == CHOOSE k \in 1..Len(s) :
                    /\ SubSeq(s, k, k) = ","
                    /\ \A j \in 1..(k - 1) : SubSeq(s, j, j) # ","
         IN << SubSeq(s, 1, i - 1) >> \o SplitComma(SubSeq(s, i + 1, Len(s)))
    ELSE << s >>

\* `echo "$opt" | xargs`: the piece without its leading and trailing blanks.
RECURSIVE Trim(_)
Trim(s) ==
  IF Len(s) > 0 /\ SubSeq(s, 1, 1) = " " THEN Trim(SubSeq(s, 2, Len(s)))
  ELSE IF Len(s) > 0 /\ SubSeq(s, Len(s), Len(s)) = " "
    THEN Trim(SubSeq(s, 1, Len(s) - 1))
  ELSE s

\* The "options" array create_decision writes.
OptionsJson(options) ==
  [i \in DOMAIN SplitComma(options) |-> Trim(SplitComma(options)[i])]

\* `.options | index($answer) != null`: some element equals the answer.
JqIndex(options, answer) == \E i \in DOMAIN options : options[i] = answer

OptionStrings == {"yes, no", "go"}
Defaults == {"", "yes"}
Answers == {"yes", "no", "ye", "go"}

\* create_decision, called by await_decision: the pending record.
CreateDecision ==
  /\ asking = "idle"
  /\ \E o \in OptionStrings, d \in Defaults :
       decision' = [status |-> "pending", options |-> OptionsJson(o), default |-> d,
                    answer |-> Null, answered_by |-> Null]
  /\ asking' = "waiting"
  /\ UNCHANGED << orch, merge, sched, tmpfile, answering, returned, cancelling >>

\* await_decision, a poll that finds the decision answered: return 0.
AwaitAnswered ==
  /\ asking = "waiting"
  /\ decision.status = "answered"
  /\ asking' = "done"
  /\ returned' = [code |-> 0, answer |-> decision.answer]
  /\ UNCHANGED << orch, merge, sched, decision, tmpfile, answering, cancelling >>

\* await_decision, a poll that finds the decision cancelled: return 1.
AwaitCancelled ==
  /\ asking = "waiting"
  /\ decision.status = "cancelled"
  /\ asking' = "done"
  /\ returned' = [code |-> 1, answer |-> Null]
  /\ UNCHANGED << orch, merge, sched, decision, tmpfile, answering, cancelling >>

\* await_decision, the last poll before the timeout: still pending.
AwaitLastPoll ==
  /\ asking = "waiting"
  /\ decision.status = "pending"
  /\ asking' = "timeout"
  /\ UNCHANGED << orch, merge, sched, decision, tmpfile, answering, returned, cancelling >>

\* await_decision after the loop: jq writes the default (or "expired") to
\* the .tmp file ...
AwaitTimeoutJq ==
  /\ asking = "timeout"
  /\ tmpfile' = IF decision.default # ""
                  THEN [decision EXCEPT !.status = "timeout",
                                        !.answer = decision.default,
                                        !.answered_by = "timeout_default"]
                  ELSE [decision EXCEPT !.status = "expired"]
  /\ asking' = "timeout_mv"
  /\ UNCHANGED << orch, merge, sched, decision, answering, returned, cancelling >>

\* What await_decision gives back after the timeout: the default with
\* `return 0`, or `return 2` without a default.
TimeoutReturn ==
  IF decision.default # "" THEN [code |-> 0, answer |-> decision.default]
  ELSE [code |-> 2, answer |-> Null]

\* ... and mv puts it in place, if the .tmp file is still there.  Without
\* it mv fails: a shell under `set -e` exits with 1, while inside a command
\* substitution the function goes on to its return.
AwaitTimeoutMv ==
  /\ asking = "timeout_mv"
  /\ IF tmpfile # NoFile
       THEN /\ decision' = tmpfile
            /\ tmpfile' = NoFile
            /\ returned' = TimeoutReturn
       ELSE /\ UNCHANGED << decision, tmpfile >>
            /\ returned' \in {TimeoutReturn, [code |-> 1, answer |-> Null]}
  /\ asking' = "done"
  /\ UNCHANGED << orch, merge, sched, answering, cancelling >>

\* answer_decision returns: `return 0` after the line ANSWERED of the log is
\* "accepted"; the other results are its three ERROR lines and the exit of
\* the shell on the failed mv, all of them a status of 1.
Answered(p, result) ==
  answering' = [answering EXCEPT ![p].pc = "idle", ![p].result = result]

\* answer_decision <id> <answer> <by>: return 1 without the decision file.
AnswerStart(p) ==
  /\ answering[p].pc = "idle"
  /\ answering[p].calls < MaxAnswers
  /\ \E a \in Answers :
       answering' = [answering EXCEPT ![p] =
         [pc |-> IF decision = NoFile THEN "idle" ELSE "status", answer |-> a,
          result |-> IF decision = NoFile THEN "not_found" ELSE "none",
          calls |-> @.calls + 1]]
  /\ UNCHANGED << orch, merge, sched, decision, tmpfile, asking, returned, cancelling >>

\* `jq -r .status`: return 1 unless it is "pending".
AnswerStatus(p) ==
  /\ answering[p].pc = "status"
  /\ IF decision.status # "pending"
       THEN Answered(p, "not_pending")
       ELSE answering' = [answering EXCEPT ![p].pc = "validate"]
  /\ UNCHANGED << orch, merge, sched, decision, tmpfile, asking, returned, cancelling >>

\* The validation left out.
AnswerValidateAny(p) ==
  /\ answering[p].pc = "validate"
  /\ answering' = [answering EXCEPT ![p].pc = "jq"]
  /\ UNCHANGED << orch, merge, sched, decision, tmpfile, asking, returned, cancelling >>

\* `.options | index($answer) != null`: return 1 unless it prints true.
AnswerValidate(p) ==
  /\ answering[p].pc = "validate"
  /\ IF ~JqIndex(decision.options, answering[p].answer)
       THEN Answered(p, "invalid")
       ELSE answering' = [answering EXCEPT ![p].pc = "jq"]
  /\ UNCHANGED << orch, merge, sched, decision, tmpfile, asking, returned, cancelling >>

\* jq writes the answered record, made of the decision file as it is now, to
\* the .tmp file ...
AnswerJq(p) ==
  /\ answering[p].pc = "jq"
  /\ tmpfile' = [decision EXCEPT !.status = "answered",
                                 !.answer = answering[p].answer,
                                 !.answered_by = p]
  /\ answering' = [answering EXCEPT ![p].pc = "mv"]
  /\ UNCHANGED << orch, merge, sched, decision, asking, returned, cancelling >>

\* ... and mv puts it in place.  Without the .tmp file mv fails: under
\* `set -e` the command line exits with 1, while inside the listener's `if`
\* the function goes on to its `return 0`.
AnswerMv(p) ==
  /\ answering[p].pc = "mv"
  /\ IF tmpfile # NoFile
       THEN /\ decision' = tmpfile
            /\ tmpfile' = NoFile
            /\ Answered(p, "accepted")
       ELSE /\ UNCHANGED << decision, tmpfile >>
            /\ Answered(p, IF p = "cli-answer" THEN "mv_failed" ELSE "accepted")
  /\ UNCHANGED << orch, merge, sched, asking, returned, cancelling >>

\* cancel_decision <id>: return 1 without the decision file ...
CancelStart ==
  /\ cancelling = "idle"
  /\ cancelling' = IF decision = NoFile THEN "done" ELSE "jq"
  /\ UNCHANGED << orch, merge, sched, decision, tmpfile, asking, answering, returned >>

\* ... else jq writes the cancelled record to the .tmp file ...
CancelJq ==
  /\ cancelling = "jq"
  /\ tmpfile' = [decision EXCEPT !.status = "cancelled"]
  /\ cancelling' = "mv"
  /\ UNCHANGED << orch, merge, sched, decision, asking, answering, returned >>

\* ... and mv puts it in place.
CancelMv ==
  /\ cancelling = "mv"
  /\ IF tmpfile # NoFile
       THEN decision' = tmpfile /\ tmpfile' = NoFile
       ELSE UNCHANGED << decision, tmpfile >>
  /\ cancelling' = "done"
  /\ UNCHANGED << orch, merge, sched, asking, answering, returned >>

InitDecisions ==
  /\ prd = ChainCatalog
  /\ stateExists = FALSE
  /\ state = InitialState(prd)
  /\ lock = "free"
  /\ heartbeat = [a \in Agents |-> NoTime]
  /\ now = 0
  /\ pc = [p \in Procs |-> IF p \in Workers THEN "start"
                           ELSE IF p = Reaper THEN "sleep" ELSE "idle"]
  /\ call = [p \in Procs |-> NoCall]
  /\ cur = [a \in Workers |-> Null]
  /\ iter = [a \in Workers |-> 0]
  /\ todo = << >>
  /\ cycles = 0
  /\ ncalls = 0
  /\ holders = [f \in IdsOf(prd) |-> {}]
  /\ lastInit = [p \in Procs |-> "none"]
  /\ ledger = << >>
  /\ NoDecisions
  /\ merge = NoMerge
  /\ output = [a \in Workers |-> << >>]
  /\ orch = NoOrch

NextDecisions ==
  \/ CreateDecision
  \/ AwaitAnswered
  \/ AwaitCancelled
  \/ AwaitLastPoll
  \/ AwaitTimeoutJq
  \/ AwaitTimeoutMv
  \/ \E p \in Answerers : AnswerStart(p)
  \/ \E p \in Answerers : AnswerStatus(p)
  \/ \E p \in Answerers : AnswerValidate(p)
  \/ \E p \in Answerers : AnswerJq(p)
  \/ \E p \in Answerers : AnswerMv(p)
  \/ CancelStart
  \/ CancelJq
  \/ CancelMv

SpecDecisions == InitDecisions /\ [][NextDecisions]_vars

\* ------------------------------------------------ ralph-merge-calculator.sh
\* `[.features[] | select(.status == "completed")]` of the document read,
\* which is $PRD_FILE.
Completed(doc) == SelectSeq(doc, LAMBDA f : f.status = "completed")

\* `.indegree[$f.id]`: the entries of depends_on that are completed ids.
InDegree(f, ids) ==
  Cardinality({i \in DOMAIN f.depends_on : f.depends_on[i] \in ids})

\* `.adj[$dep]`: the completed features that depend on dep, in the order of
\* the document, once for each entry of their depends_on.
RECURSIVE Adj(_, _)
Adj(fs, dep) ==
  IF fs = << >> THEN << >>
  ELSE [i \in 1..Cardinality({j \in DOMAIN Head(fs).depends_on :
                                Head(fs).depends_on[j] = dep}) |-> Head(fs).id]
         \o Adj(Tail(fs), dep)

\* The inner reduce of the loop: each neighbour loses one of its in-degree
\* and joins the end of the queue when it reaches 0.
RECURSIVE Relax(_, _)
Relax(neighbors, k) ==
  IF neighbors = << >> THEN k
  ELSE LET n == Head(neighbors)
           d == k.indegree[n] - 1
       IN Relax(Tail(neighbors),
                [indegree |-> [k.indegree EXCEPT ![n] = d],
                 queue |-> IF d = 0 THEN Append(k.queue, n) ELSE k.queue])

\* `until(.queue | length == 0; ...)`: the head of the queue goes to the
\* result.
RECURSIVE Kahn(_, _, _)
Kahn(fs, k, result) ==
  IF k.queue = << >> THEN result
  ELSE Kahn(fs,
            Relax(Adj(fs, Head(k.queue)),
                  [indegree |-> k.indegree, queue |-> Tail(k.queue)]),
            Append(result, Head(k.queue)))

calculate_merge_order(doc) ==
  LET fs == Completed(doc)
      ids == {fs[i].id : i \in DOMAIN fs}
      zero == SelectSeq(fs, LAMBDA f : InDegree(f, ids) = 0)
  IN Kahn(fs,
          [indegree |-> [id \in ids |-> InDegree(SpecOf(fs, id), ids)],
           queue |-> [i \in DOMAIN zero |-> zero[i].id]],
          << >>)

\* `echo "$order" | grep -c . || echo 0`: the lines of the count.  Without a
\* line in the order grep prints 0 and fails, and echo prints a second 0.
OrderCount(order) == IF order = << >> THEN << 0, 0 >> ELSE << Len(order) >>

\* `[[ "$order_count" -ne "$completed_count" ]]`: a count of two lines is a
\* syntax error of the arithmetic, and the test fails as it does for equal
\* numbers.
NotEqualTest(count, n) == Len(count) = 1 /\ count[1] # n

validate_merge_order(doc) ==
  IF NotEqualTest(OrderCount(calculate_merge_order(doc)), Len(Completed(doc)))
    THEN "cycle" ELSE "valid"

\* `ralph-merge-calculator.sh order`
MergeOrderCmd ==
  /\ merge' = [merge EXCEPT !.order = calculate_merge_order(prd)]
  /\ UNCHANGED << orch, sched, decvars >>

\* `ralph-merge-calculator.sh validate`: "Circular dependency detected!" and
\* return 1, or "Merge order validated".
ValidateCmd ==
  /\ merge' = [merge EXCEPT !.validated = validate_merge_order(prd),
                            !.reported = @ \/ validate_merge_order(prd) = "cycle"]
  /\ UNCHANGED << orch, sched, decvars >>

\* generate_merge_plan: merge-plan.md is written with the order, or with "No
\* features ready to merge." for an empty order.
GenerateMergePlan ==
  /\ merge' = [merge EXCEPT !.plan = calculate_merge_order(prd)]
  /\ UNCHANGED << orch, sched, decvars >>

\* create_integration_branch: every feature of the merge order is merged;
\* for those whose `git merge` stops on a conflict the merge is aborted and
\* jq writes integration_status "conflict" into prd.json.
RecordConflicts(doc, conflicts) ==
  [i \in DOMAIN doc |->
     IF doc[i].id \in conflicts
       THEN [doc[i] EXCEPT !.integration_status = "conflict"] ELSE doc[i]]

\* run_integration_pipeline: refused when validate_merge_order fails, nothing
\* to do without completed features, else the integration branch is made
\* and the features are merged.
RunIntegrationPipeline ==
  /\ merge' = [merge EXCEPT
        !.pipeline = IF validate_merge_order(prd) = "cycle" THEN "refused"
                     ELSE IF Len(Completed(prd)) = 0 THEN "nothing"
                     ELSE "started",
        !.reported = @ \/ validate_merge_order(prd) = "cycle"]
  /\ IF validate_merge_order(prd) # "cycle" /\ Len(Completed(prd)) # 0
       THEN \E conflicts \in SUBSET {calculate_merge_order(prd)[i] :
                                       i \in DOMAIN calculate_merge_order(prd)} :
              prd' = RecordConflicts(prd, conflicts)
       ELSE UNCHANGED prd
  /\ UNCHANGED << stateExists, state, lock, heartbeat, now, pc, call, cur, iter,
                  todo, cycles, ncalls, holders, lastInit, ledger, output, decvars, orch >>

\* The catalogs the merge order is computed for, and the two layouts of
\* prd.json: with the state fields, as the merge calculator reads them, or
\* without them, as init_ralph and ralph-claim.sh keep them in state.json.
MergeChain == << Feature("A", <<>>, 1), Feature("B", <<"A">>, 2), Feature("C", <<"B">>, 3) >>
CycleCatalog == << Feature("P", <<"Q">>, 1), Feature("Q", <<"P">>, 1) >>
MixedCatalog == << Feature("R", <<>>, 1), Feature("P", <<"Q">>, 1), Feature("Q", <<"P">>, 1) >>
MergeCatalogs == {MergeChain, TieCatalog, CycleCatalog, MixedCatalog}

\* state.json after `complete` of the features of S.
CompletedState(cat, S) ==
  [f \in IdsOf(cat) |->
     IF f \in S THEN CompleteUpdate(InitialState(cat), f, 0, "")[f] ELSE InitRecord]

\* prd.json of the layout with state fields, in step with state.json.
WithStatus(cat, st) == [i \in DOMAIN cat |-> [cat[i] EXCEPT !.status = st[cat[i].id].status]]

InitMerge ==
  /\ \E cat \in MergeCatalogs : \E S \in SUBSET IdsOf(cat) :
       /\ state = CompletedState(cat, S)
       /\ prd \in {cat, WithStatus(cat, state)}
  /\ stateExists = TRUE
  /\ lock = "free"
  /\ heartbeat = [a \in Agents |-> NoTime]
  /\ now = 0
  /\ pc = [p \in Procs |-> IF p \in Workers THEN "start"
                           ELSE IF p = Reaper THEN "sleep" ELSE "idle"]
  /\ call = [p \in Procs |-> NoCall]
  /\ cur = [a \in Workers |-> Null]
  /\ iter = [a \in Workers |-> 0]
  /\ todo = << >>
  /\ cycles = 0
  /\ ncalls = 0
  /\ holders = [f \in IdsOf(prd) |-> {}]
  /\ lastInit = [p \in Procs |-> "none"]
  /\ ledger = << >>
  /\ NoDecisions
  /\ merge = NoMerge
  /\ output = [a \in Workers |-> << >>]
  /\ orch = NoOrch

NextMerge ==
  \/ MergeOrderCmd
  \/ ValidateCmd
  \/ GenerateMergePlan
  \/ RunIntegrationPipeline

SpecMerge == InitMerge /\ [][NextMerge]_vars

\* ------------------------------------------------------------- properties
\* The step in which process p commits the write of function fn.
Commits(p, fn) ==
  /\ pc[p] = "write"
  /\ pc'[p] = "release"
  /\ call[p].fn = fn
  /\ stateExists

\* C1: for every interleaving of claim and claim_next calls by different
\* workers, a feature is successfully claimed by at most one worker until it
\* is released.
C1_AtMostOneClaimant == \A f \in Ids : Cardinality(holders[f]) <= 1

\* C2: claim and claim_next move a feature to in_progress only if, at the
\* time of the commit, every id in its depends_on is completed.
C2_ClaimCommitsWithDepsCompleted ==
  [][\A p \in Procs :
       Commits(p, "claim") \/ Commits(p, "claim_next")
         => DepsMet(SpecOf(prd, call[p].fid), CompletedIds(state))]_vars

\* C3: in every persisted state and for every feature record, status is
\* in_progress if and only if claimed_by and claimed_at are non-null.
C3_InProgressIffClaimFields ==
  stateExists =>
    \A f \in Ids : state[f].status = "in_progress"
                      <=> (state[f].claimed_by # Null /\ state[f].claimed_at # NoTime)

\* C4: release on a feature that is not in_progress fails and leaves the state
\* document unchanged; from in_progress it sets pending and clears the claim
\* fields.
C4_ReleaseOnlyFromInProgress ==
  [][\A p \in Procs :
       Commits(p, "release") =>
         IF state[call[p].fid].status = "in_progress"
           THEN /\ state'[call[p].fid].status = "pending"
                /\ state'[call[p].fid].claimed_by = Null
                /\ state'[call[p].fid].claimed_at = NoTime
           ELSE state' = state /\ ~call'[p].ok]_vars

\* C5: complete on a feature that is not in_progress fails and leaves the
\* state document unchanged; from in_progress it sets completed and
\* completed_at.
C5_CompleteOnlyFromInProgress ==
  [][\A p \in Procs :
       Commits(p, "complete") =>
         IF state[call[p].fid].status = "in_progress"
           THEN /\ state'[call[p].fid].status = "completed"
                /\ state'[call[p].fid].completed_at = now
           ELSE state' = state /\ ~call'[p].ok]_vars

\* C6: every committed status change of a feature is one of pending ->
\* in_progress, in_progress -> pending, in_progress -> completed, in_progress
\* -> blocked, pending -> blocked.
LegalTransitions ==
  { << "pending", "in_progress" >>, << "in_progress", "pending" >>,
    << "in_progress", "completed" >>, << "in_progress", "blocked" >>,
    << "pending", "blocked" >> }

C6_OnlyLegalTransitions ==
  [][stateExists =>
       \A f \in Ids : state'[f].status # state[f].status
                         => << state[f].status, state'[f].status >> \in LegalTransitions]_vars

\* C7: at most one process holds the state mutex at any instant, and every
\* process that is between the acquire_lock and the release_lock of a state
\* function holds it.
C7_WritersHoldTheMutex ==
  \A p \in Procs : pc[p] \in {"check", "write", "release"} => lock = p

\* C8: the state document changes only by the committed write of an
\* operation, applied to the document as it is; nothing else, a state
\* initialization included, erases what an operation wrote.
C8_OnlyOperationsChangeState ==
  [][stateExists /\ state' # state =>
       \E p \in Procs : /\ pc[p] = "write"
                         /\ pc'[p] = "release"
                         /\ state' = Updated(call[p], state, now)]_vars

C10_ReaperReleasesOnlyStale ==
  [][Commits(Reaper, "release") /\ state[call[Reaper].fid].status = "in_progress"
       => /\ now - state[call[Reaper].fid].claimed_at > STALE_CLAIM_THRESHOLD
          /\ ~IsAgentAlive(state[call[Reaper].fid].claimed_by, now)]_vars

\* C11: a worker that is alive and inside a builder invocation for the
\* feature it holds never has that claim released by the reaper, however long
\* the invocation lasts: also when it has lasted longer than the threshold
\* since the claim and since the last heartbeat.
C11_BusyWorkerKeepsClaim ==
  [][\A a \in Workers :
       ~ /\ Commits(Reaper, "release")
         /\ pc[a] = "claude"
         /\ cur[a] = call[Reaper].fid
         /\ state[cur[a]].status = "in_progress"
         /\ state[cur[a]].claimed_by = a
         /\ now - state[cur[a]].claimed_at > STALE_CLAIM_THRESHOLD
         /\ ~IsAgentAlive(a, now)]_vars

\* C12: if a worker ends while it holds feature f, then once the threshold
\* has passed since its claim and its last heartbeat the running reaper
\* eventually releases f back to pending.
CrashedHolding(a, f) ==
  /\ pc[a] = "crashed"
  /\ cur[a] = f
  /\ f \in Ids
  /\ stateExists
  /\ state[f].status = "in_progress"
  /\ state[f].claimed_by = a
  /\ now - state[f].claimed_at > STALE_CLAIM_THRESHOLD
  /\ ~IsAgentAlive(a, now)

C12_CrashedClaimIsReleased ==
  \A a \in Workers : \A f \in AllIds :
    CrashedHolding(a, f) ~> (f \in Ids /\ state[f].status = "pending")

\* C13: while the daily total is over the cap, neither a worker nor the reaper
\* commits a mutation of the state document: a feature that is in_progress
\* stays in_progress with the same claimed_by.
C13_NoMutationOverBudget ==
  [][stateExists /\ ~check_budget(ledger, now) => state' = state]_vars

\* C14: check_budget returns true if and only if the daily total is strictly
\* less than the cap.
C14_WithinBudgetIffBelowCap ==
  check_budget(ledger, now)
    <=> get_daily_cost(ledger, now) < MAX_DAILY_COST_USD * 10000

\* The sum of the costs of today's lines, in millionths of a dollar.
RECURSIVE SumCosts(_, _)
SumCosts(lines, idx) ==
  IF idx = {} THEN 0
  ELSE LET i == CHOOSE j \in idx : TRUE
       IN lines[i].cost + SumCosts(lines, idx \ {i})

SumToday(lines, t) == SumCosts(lines, {i \in DOMAIN lines : lines[i].day = Day(t)})

IdOrder == << "A", "B", "C", "F1", "F10", "P", "Q", "R", "T1", "T2", "X", "Y", "Z" >>
IdBefore(f, g) ==
  \E i, j \in DOMAIN IdOrder : IdOrder[i] = f /\ IdOrder[j] = g /\ i < j

PendingWithDepsCompleted(cat, st) ==
  {f \in IdsOf(cat) :
     /\ st[f].status = "pending"
     /\ \A i \in DOMAIN SpecOf(cat, f).depends_on :
          /\ SpecOf(cat, f).depends_on[i] \in DOMAIN st
          /\ st[SpecOf(cat, f).depends_on[i]].status = "completed"}

\* C16: claim_next claims the claimable feature of least priority value, and
\* among those of equal priority the one of least id, whatever the order of
\* the features in the catalog.
C16_ClaimNextLeastPriorityThenId ==
  [][\A p \in Procs :
       Commits(p, "claim_next") =>
         /\ call[p].fid \in PendingWithDepsCompleted(prd, state)
         /\ \A g \in PendingWithDepsCompleted(prd, state) \ {call[p].fid} :
              \/ SpecOf(prd, call[p].fid).priority < SpecOf(prd, g).priority
              \/ /\ SpecOf(prd, call[p].fid).priority = SpecOf(prd, g).priority
                 /\ IdBefore(call[p].fid, g)]_vars

\* A feature with dependencies, every one of them blocked.
AllDepsBlocked(cat, st, f) ==
  /\ SpecOf(cat, f).depends_on # << >>
  /\ \A i \in DOMAIN SpecOf(cat, f).depends_on :
       /\ SpecOf(cat, f).depends_on[i] \in DOMAIN st
       /\ st[SpecOf(cat, f).depends_on[i]].status = "blocked"

\* C17: a feature whose dependencies are all blocked is not among the
\* claimable ids, and no claim or claim_next commits its move to in_progress.
C17_BlockedDepsNeverClaimed ==
  /\ [](stateExists =>
         \A f \in ClaimableIds(prd, state) : ~AllDepsBlocked(prd, state, f))
  /\ [][\A p \in Procs :
          Commits(p, "claim") \/ Commits(p, "claim_next") =>
            ~AllDepsBlocked(prd, state, call[p].fid)]_vars

\* C18: over a step in which a feature reaches completed and none becomes
\* blocked, every id that was claimable is still claimable.
C18_ClaimableGrowsWithCompleted ==
  [][(/\ stateExists /\ stateExists'
      /\ \E f \in Ids : state[f].status # "completed" /\ state'[f].status = "completed"
      /\ \A f \in Ids : state'[f].status = "blocked" => state[f].status = "blocked")
       => ClaimableIds(prd, state) \subseteq ClaimableIds(prd, state')]_vars

\* The step in which answer_decision of p returns.
Returns(p) == answering[p].pc # "idle" /\ answering'[p].pc = "idle"

\* C19: an answer_decision that returns while the decision is pending is
\* accepted if and only if its answer is one of the recorded options, and a
\* rejected answer outside the options leaves the record unchanged.
C19_AcceptsExactlyTheOptions ==
  [][\A p \in Answerers :
       Returns(p) /\ decision.status = "pending" =>
         /\ answering'[p].result = "accepted"
              <=> \E i \in DOMAIN decision.options :
                    decision.options[i] = answering[p].answer
         /\ answering'[p].result # "accepted" =>
              /\ decision' = decision
              /\ decision'.answer = Null]_vars

\* C19, its case: one answer outside the options was rejected as invalid and
\* one answer among the options was accepted.
C19_OneInvalidOneAccepted ==
  /\ decision.status = "answered"
  /\ \E p, q \in Answerers :
       /\ answering[p].result = "invalid"
       /\ answering[q].result = "accepted"
       /\ decision.answer = answering[q].answer

\* C20: an answer is accepted only while the decision is pending, the answer
\* and answered_by of an answered decision never change, and of the answers
\* given to one decision at most one is accepted.
C20_OneAnswerWhilePending ==
  /\ [][\A p \in Answerers :
          Returns(p) /\ answering'[p].result = "accepted" =>
            decision.status = "pending"]_vars
  /\ [][decision.status = "answered" =>
          /\ decision'.answer = decision.answer
          /\ decision'.answered_by = decision.answered_by]_vars
  /\ [](Cardinality({p \in Answerers : answering[p].result = "accepted"}) <= 1)

\* The step in which await_decision returns.
AwaitReturns == asking # "done" /\ asking' = "done"

\* C21: when a valid answer has been accepted before await_decision returns,
\* await_decision returns an accepted answer with status 0, and the record
\* is answered with that answer.
C21_AwaitReturnsThePostedAnswer ==
  [][AwaitReturns /\ (\E p \in Answerers : answering[p].result = "accepted") =>
       /\ returned'.code = 0
       /\ \E p \in Answerers :
            answering[p].result = "accepted" /\ answering[p].answer = returned'.answer
       /\ decision'.status = "answered"
       /\ decision'.answer = returned'.answer]_vars

\* C22: the status of the record is always one of pending, answered, timeout
\* and cancelled; and when await_decision times out on a decision that is
\* still pending, it returns the default and the record becomes timeout if
\* there is a default, and it reports the timeout without default otherwise.
C22_TimeoutAppliesTheDefault ==
  /\ [](decision.status \in {"absent", "pending", "answered", "timeout", "cancelled"})
  /\ [][AwaitReturns /\ asking = "timeout_mv" /\ decision.status = "pending" =>
          IF decision.default # ""
            THEN /\ returned' = [code |-> 0, answer |-> decision.default]
                 /\ decision'.status = "timeout"
                 /\ decision'.answer = decision.default
            ELSE returned'.code = 2]_vars

\* C23: cancel_decision moves only a pending decision to cancelled: on a
\* decision that is answered, timed out or cancelled it changes neither the
\* status nor the answer, and what await_decision has returned stays.
C23_CancelOnlyFromPending ==
  [][cancelling = "mv" /\ cancelling' = "done" =>
       /\ decision.status # "pending" =>
            /\ decision'.status = decision.status
            /\ decision'.answer = decision.answer
       /\ returned' = returned]_vars

\* The completed features of the state document, the dependencies of one of
\* them among them, and whether the dependency graph on them has no cycle.
DoneSet == CompletedIds(state)
DepsIn(f, S) ==
  {SpecOf(prd, f).depends_on[i] : i \in DOMAIN SpecOf(prd, f).depends_on} \cap S
Acyclic(S) == \A T \in SUBSET S : T # {} => \E f \in T : DepsIn(f, S) \cap T = {}
Emitted(out) == out # << "-" >>

\* C24: when the completed features are acyclic, the merge order lists each
\* of them exactly once, nothing else, and each after its completed
\* dependencies; for the chain A, B, C all completed it is A, B, C.
C24_MergeOrderIsTopological ==
  Emitted(merge.order) /\ Acyclic(DoneSet) =>
    /\ \A f \in DoneSet :
         Cardinality({i \in DOMAIN merge.order : merge.order[i] = f}) = 1
    /\ \A i \in DOMAIN merge.order : merge.order[i] \in DoneSet
    /\ \A i, j \in DOMAIN merge.order :
         merge.order[j] \in DepsIn(merge.order[i], DoneSet) => j < i
    /\ DoneSet = {"A", "B", "C"} => merge.order = << "A", "B", "C" >>

\* C25: the length of the merge order equals the number of completed
\* features exactly when their dependency graph is acyclic, validation
\* reports a cycle exactly when it is cyclic, and without completed features
\* the order is empty and no cycle is reported.
C25_LengthAndCycleDetection ==
  /\ Emitted(merge.order) =>
       /\ Len(merge.order) = Cardinality(DoneSet) <=> Acyclic(DoneSet)
       /\ DoneSet = {} => merge.order = << >>
  /\ merge.validated # "none" =>
       /\ merge.validated = "cycle" <=> ~Acyclic(DoneSet)
       /\ DoneSet = {} => merge.validated = "valid"

\* The wave of Kahn's algorithm in which a completed feature becomes ready.
RECURSIVE Wave(_, _)
Wave(f, S) ==
  IF DepsIn(f, S) = {} THEN 0
  ELSE 1 + (CHOOSE w \in 0..Cardinality(S) :
              /\ \E g \in DepsIn(f, S) : Wave(g, S) = w
              /\ \A g \in DepsIn(f, S) : Wave(g, S) <= w)

\* C26: two features of the same wave stand in the merge order in ascending
\* order of id, whatever the order of the catalog.
C26_SameWaveAscendingById ==
  Emitted(merge.order) /\ Acyclic(DoneSet) =>
    \A i, j \in DOMAIN merge.order :
      /\ i < j
      /\ merge.order[i] \in DoneSet /\ merge.order[j] \in DoneSet
      /\ Wave(merge.order[i], DoneSet) = Wave(merge.order[j], DoneSet)
      => IdBefore(merge.order[i], merge.order[j])

\* C27: when the completed features contain a dependency cycle, the cycle
\* is reported by whatever ran, no ordering is printed, no merge-plan.md is
\* written and the integration pipeline does not start merging.
C27_CycleStopsTheMerge ==
  ~Acyclic(DoneSet) =>
    /\ merge.order \in {<< "-" >>, << >>}
    /\ merge.plan = << "-" >>
    /\ merge.pipeline # "started"
    /\ merge # NoMerge => merge.reported
\* C28: when the output of one builder call holds more than one terminal
\* marker, the worker acts on the one that stands first in the output:
\* FEATURE_COMPLETE leads to complete, BLOCKED to block with its reason, STUCK
\* to block.
C28_FirstMarkerWins ==
  [][\A a \in Workers :
       (pc[a] = "claude" /\ pc'[a] = "acquire" /\ Len(output'[a]) > 1)
         => /\ call'[a].fid = cur[a]
            /\ call'[a].fn = (IF output'[a][1] = "complete" THEN "complete" ELSE "block")
            /\ output'[a][1] # "complete" => call'[a].arg = output'[a][1]]_vars

\* The feature loop of worker a ends: complete_feature or block_feature,
\* called for the feature it claimed, returns to run_agent.
FeatureLoopEnds(a) ==
  /\ cur[a] # Null
  /\ call[a].fn \in {"complete", "block"}
  /\ pc'[a] = "loop"

\* C29: whenever a worker's feature loop ends for the feature it claimed
\* (after a marker, after max_iterations_per_feature, or after contention on
\* the state mutex), the committed status of that feature is completed or
\* blocked, never in_progress; and the loop starts an iteration at most
\* max_iterations_per_feature times.
C29_LoopEndsCompletedOrBlocked ==
  /\ [][\A a \in Workers :
          FeatureLoopEnds(a) =>
            /\ stateExists'
            /\ state'[cur[a]].status \in {"completed", "blocked"}]_vars
  /\ [][\A a \in Workers : iter'[a] # iter[a] => iter'[a] \in 0..MaxIterations]_vars

\* The features of the state document that are pending or in progress.
Unfinished == {id \in DOMAIN state : state[id].status \in {"pending", "in_progress"}}

\* C30: a worker leaves its main loop only when the state document has no
\* pending and no in_progress feature; when claim_next returns none while
\* some feature is still pending or in progress, the worker sleeps and tries
\* again.
C30_ExitsOnlyWhenNothingLeft ==
  [][\A a \in Workers :
       /\ (pc[a] # "done" /\ pc'[a] = "done") => (stateExists /\ Unfinished = {})
       /\ (/\ call[a].fn = "claim_next"
           /\ call'[a] = NoCall
           /\ pc'[a] # "builder"
           /\ Unfinished # {}) => pc'[a] = "loop"]_vars


\* C34: release_lock is idempotent: on a lock directory that is already gone
\* (released, force-released or removed by the cleanup) it reports success,
\* and the directory is gone afterwards as after a single release.
C34_ReleaseIsIdempotent ==
  [][\A p \in Procs :
       (pc[p] = "release" /\ pc'[p] # "release")
         => /\ release_lock(lock).status = 0
            /\ release_lock(release_lock(lock).lock).lock = release_lock(lock).lock
            /\ lock' = "free"]_vars


\* C36: no operation (claim, release, complete, block, update_ci, reaper,
\* merge planning, integration) modifies the static catalog: prd.json, with
\* its feature ids and depends_on lists, stays as it was loaded, and only the
\* state document changes.
C36_CatalogNeverModified == [][prd' = prd]_vars


\* C38: complete and block take effect only on behalf of the worker recorded
\* in claimed_by: a worker whose claim was released (by the reaper) or taken
\* over by another agent in the meantime cannot commit its outcome.
C38_OnlyTheClaimantCommits ==
  [][\A a \in Workers :
       (Commits(a, "complete") \/ Commits(a, "block"))
         => (state[call[a].fid].claimed_by # a => state' = state)]_vars

\* C39: a feature that has reached completed never returns to pending or
\* in_progress, whatever release (the reaper's included, decided from a scan
\* taken before the lock) comes later.
C39_CompletedIsFinal ==
  [][\A f \in DOMAIN state :
       (stateExists /\ state[f].status = "completed")
         => (stateExists' /\ state'[f].status \notin {"pending", "in_progress"})]_vars


\* The step in which a function of ralph-claim.sh, its write step behind it,
\* releases the lock, logs, calls notify_slack and returns 0.
Notifies(p) ==
  /\ pc[p] = "release"
  /\ pc'[p] # "release"
  /\ call[p].ok
  /\ call[p].fn \in {"claim", "claim_next", "release", "complete", "block"}
  /\ release_lock(lock).status = 0

\* C33: a claimed, completed, blocked or released notification (and the
\* success result) is produced only after the transition has been written to
\* the state document: when the write did not succeed there is none.
C33_NotifiedOnlyAfterCommit ==
  [][\A p \in Procs : Notifies(p) => call[p].committed]_vars


\* ------------------------------------------------- a holder of the lock dies
\* A direct ralph-claim.sh invocation is killed (SIGKILL, power loss) between
\* acquire_lock and release_lock: no trap runs, the lock directory stays.
CallerKilled(p) ==
  /\ pc[p] \in {"check", "write", "release"}
  /\ lock = p
  /\ pc' = [pc EXCEPT ![p] = "idle"]
  /\ call' = [call EXCEPT ![p] = NoCall]
  /\ UNCHANGED << output, orch, merge, decvars, ledger, prd, stateExists, state, lock, heartbeat, now, cur, iter,
                  todo, cycles, ncalls, holders, lastInit >>

NextKill ==
  \/ NextClaims
  \/ \E p \in Callers : CallerKilled(p)

\* The workers are scheduled for as long as they run; nobody force-releases.
SpecKill ==
  /\ InitStarted
  /\ [][NextKill]_vars
  /\ \A a \in Workers : WF_vars(WorkerStep(a))

\* The lock directory of a process that no longer runs.
Orphaned == \E p \in Callers : lock = p /\ pc[p] = "idle"

\* C40: when a process ends while it holds the state mutex, the others are
\* not blocked for ever: without force_release some later operation of
\* another process acquires the mutex.
C40_OrphanedLockIsOvercome == Orphaned ~> ~Orphaned


\* ------------------------------------------------------ ralph-orchestrator.sh
\* kill -0 on the pid of an agent: the process has neither returned from
\* run_agent nor been killed.
AgentAlive(a) == pc[a] \notin {"done", "crashed"}

\* One round of wait_for_completion, after its sleep 30: pending and
\* in_progress are counted in prd.json; on 0 and 0 the loop returns.  Else
\* the agents that are alive are counted, and when none is and pending is
\* above 0 all agents are started again (each begins with init_ralph).
\* The rounds and the restarts are counted up to MaxChecks.
Counted(n) == IF n < MaxChecks THEN n + 1 ELSE n

WaitCheck ==
  /\ orch.pc = "wait"
  /\ IF PrdCount("pending") = 0 /\ PrdCount("in_progress") = 0
       THEN /\ orch' = [orch EXCEPT !.pc = "final", !.checks = Counted(@)]
            /\ UNCHANGED << pc, call, cur, iter, output >>
       ELSE IF (\A a \in Workers : ~AgentAlive(a)) /\ PrdCount("pending") > 0
         THEN /\ orch' = [orch EXCEPT !.checks = Counted(@), !.restarts = Counted(@)]
              /\ pc' = [p \in Procs |-> IF p \in Workers THEN "start" ELSE pc[p]]
              /\ call' = [p \in Procs |-> IF p \in Workers THEN NoCall ELSE call[p]]
              /\ cur' = [a \in Workers |-> Null]
              /\ iter' = [a \in Workers |-> 0]
              /\ output' = [a \in Workers |-> << >>]
         ELSE /\ orch' = [orch EXCEPT !.checks = Counted(@)]
              /\ UNCHANGED << pc, call, cur, iter, output >>
  /\ UNCHANGED << merge, decvars, ledger, prd, stateExists, state, lock, heartbeat, now,
                  todo, cycles, ncalls, holders, lastInit >>

\* run_orchestrator after wait_for_completion: show_status, the count of
\* blocked features in prd.json, the warning and `return 1` when there are
\* some, else the success message; then the EXIT trap: the heartbeat daemon
\* and the agents are killed and the lock directories removed.
FinalStatus ==
  /\ orch.pc = "final"
  /\ orch' = [orch EXCEPT !.pc = "exit",
                          !.result = IF PrdCount("blocked") > 0 THEN "blocked" ELSE "success"]
  /\ pc' = [p \in Procs |->
              IF p \in Workers /\ AgentAlive(p) THEN "crashed"
              ELSE IF p = Reaper THEN "dead" ELSE pc[p]]
  /\ lock' = "free"
  /\ UNCHANGED << merge, decvars, ledger, prd, stateExists, state, heartbeat, now, call, cur, iter,
                  todo, cycles, ncalls, holders, lastInit, output >>

\* The catalogs of the orchestrator runs: one without state fields, and two
\* of the earlier layout, with a feature in progress and with one pending.
StuckCatalog == << LegacyCiFailed("Y", <<>>, 1, 0) >>
OrchCatalogs == {ChainCatalog, BusyCatalog, StuckCatalog}

InitOrch ==
  /\ prd \in OrchCatalogs
  /\ stateExists = TRUE
  /\ state = InitialState(prd)
  /\ lock = "free"
  /\ heartbeat = [a \in Agents |-> NoTime]
  /\ now = 0
  /\ pc = [p \in Procs |-> IF p \in Workers THEN "start"
                           ELSE IF p = Reaper THEN "sleep" ELSE "idle"]
  /\ call = [p \in Procs |-> NoCall]
  /\ cur = [a \in Workers |-> Null]
  /\ iter = [a \in Workers |-> 0]
  /\ todo = << >>
  /\ cycles = 0
  /\ ncalls = 0
  /\ holders = [f \in IdsOf(prd) |-> {}]
  /\ lastInit = [p \in Procs |-> "none"]
  /\ ledger = << >>
  /\ NoDecisions
  /\ merge = NoMerge
  /\ output = [a \in Workers |-> << >>]
  /\ orch = NoOrch

OrchStep ==
  \/ WaitCheck
  \/ FinalStatus

\* One step of an agent that run_orchestrator started: state.json is there
\* and nobody else takes the lock.
StartedAgentStep(a) ==
  \/ InitCheck(a)
  \/ AcquireLock(a)
  \/ ClaimNextSelect(a)
  \/ WriteState(a)
  \/ ReleaseLock(a)
  \/ AgentLoop(a)
  \/ Builder(a)
  \/ BuilderDone(a)
  \/ BuilderExhausted(a)

NextOrch ==
  \/ \E a \in Workers : StartedAgentStep(a)
  \/ \E a \in Workers : WorkerCrash(a)
  \/ OrchStep

\* The orchestrator and the agents are scheduled for as long as they run.
SpecOrch ==
  /\ InitOrch
  /\ [][NextOrch]_vars
  /\ WF_vars(OrchStep)
  /\ \A a \in Workers : WF_vars(StartedAgentStep(a))


\* The step in which wait_for_completion makes one round.
Checks == orch'.checks # orch.checks

\* C31: in the supervision loop, whenever no worker is alive and the state
\* has a pending or an in_progress feature (pending = 0 with in_progress > 0
\* included), the orchestrator starts the workers again at its next check.
C31_RestartsWhenWorkRemains ==
  [][(Checks /\ Unfinished # {} /\ \A a \in Workers : ~AgentAlive(a))
       => /\ orch'.pc = "wait"
          /\ \A a \in Workers : pc'[a] = "start"]_vars

\* C32: the orchestrator declares the drain complete and goes on to its
\* shutdown only when the state document has no pending and no in_progress
\* feature.
C32_DrainOnlyWhenNothingLeft ==
  [][(orch.pc = "wait" /\ orch'.pc = "final") => (stateExists /\ Unfinished = {})]_vars


\* Nothing more can happen to the features: each is completed, blocked, or
\* pending behind a blocked dependency, and none is in progress.
BehindBlocked(f) ==
  \E i \in DOMAIN SpecOf(prd, f).depends_on :
     state[SpecOf(prd, f).depends_on[i]].status = "blocked"

Settled ==
  /\ stateExists
  /\ \A f \in Ids :
       \/ state[f].status \in {"completed", "blocked"}
       \/ state[f].status = "pending" /\ BehindBlocked(f)

\* C37: once every feature is completed, blocked, or pending behind a
\* blocked dependency, and none is in progress, the orchestrator leaves its
\* wait loop, reports a final status and, when features are blocked, reports
\* them as needing human attention.
C37_SettledRunEndsAndReportsBlocked ==
  Settled ~> (/\ orch.pc = "exit"
              /\ (\E f \in Ids : state[f].status = "blocked") => orch.result = "blocked")


\* -------------------------------------------------- the simple chain, end to end
\* The builder prints FEATURE_COMPLETE for the claimed feature.
BuilderCompletes(a) == BuilderDone(a) /\ GrepMarker(output'[a]) = "complete"

\* One step of the agent of the chain run: nobody else takes the lock and
\* the builder never fails.
ChainStep(a) ==
  \/ InitCheck(a)
  \/ AcquireLock(a)
  \/ ClaimNextSelect(a)
  \/ WriteState(a)
  \/ ReleaseLock(a)
  \/ AgentLoop(a)
  \/ Builder(a)
  \/ BuilderCompletes(a)

\* `ralph-orchestrator.sh run` with NUM_AGENTS=1 on the catalog A, B after A,
\* C after B: init_ralph has written state.json, the agent is started.
InitChain ==
  /\ prd = MergeChain
  /\ stateExists = TRUE
  /\ state = InitialState(prd)
  /\ lock = "free"
  /\ heartbeat = [a \in Agents |-> NoTime]
  /\ now = 0
  /\ pc = [p \in Procs |-> IF p \in Workers THEN "start"
                           ELSE IF p = Reaper THEN "sleep" ELSE "idle"]
  /\ call = [p \in Procs |-> NoCall]
  /\ cur = [a \in Workers |-> Null]
  /\ iter = [a \in Workers |-> 0]
  /\ todo = << >>
  /\ cycles = 0
  /\ ncalls = 0
  /\ holders = [f \in IdsOf(prd) |-> {}]
  /\ lastInit = [p \in Procs |-> "none"]
  /\ ledger = << >>
  /\ NoDecisions
  /\ merge = NoMerge
  /\ output = [a \in Workers |-> << >>]
  /\ orch = NoOrch

NextChain ==
  \/ \E a \in Workers : ChainStep(a)
  \/ OrchStep

\* The orchestrator and the agent are scheduled for as long as they run.
SpecChain ==
  /\ InitChain
  /\ [][NextChain]_vars
  /\ WF_vars(OrchStep)
  /\ \A a \in Workers : WF_vars(ChainStep(a))

\* C35: with the catalog A, B after A, C after B of priorities 1, 2, 3, one
\* worker and a builder that emits FEATURE_COMPLETE, the run reaches the
\* state in which A, B and C are completed, the features having been claimed
\* in the order A, B, C.
C35_ChainRunsToCompletion ==
  /\ <>(\A f \in Ids : state[f].status = "completed")
  /\ [](\A f \in Ids :
          state[f].status # "pending" =>
            \A i \in DOMAIN SpecOf(prd, f).depends_on :
               state[SpecOf(prd, f).depends_on[i]].status = "completed")

====
